---- MODULE Spec2Model ----
(***************************************************************************)
(* The crawl-and-extract engine of the books scraper:                      *)
(*   src/src/scraper/base_scraper.py   BaseScraper  (fetch_page, retry)    *)
(*   src/src/scraper/books_scraper.py  BooksScraper (extraction, crawl)    *)
(*                                                                         *)
(* Text is modelled as a sequence of tokens (a URL as its path pieces, a   *)
(* price text as its characters), so that startswith, replace and the      *)
(* regular expression of extract_price are computed, not assumed.  An      *)
(* optional value (Python None, a markup element that find() does not      *)
(* find) is a sequence of length 0 or 1.                                   *)
(*                                                                         *)
(* The store the crawl's result is handed to:                              *)
(*   src/src/database/connection.py    DatabaseManager.insert_books_bulk   *)
(*   src/src/database/models.py        Book (upc is nullable and unique)   *)
(***************************************************************************)
EXTENDS Integers, Sequences, FiniteSets, TLC

\* ------------------------------------------------------------------ bounds
\* largest explicit retries argument given to fetch_page
MaxRetriesArg == 4
\* longest price text, in characters
MaxPriceLen == 6
\* longest entry link, in tokens
MaxLinkLen == 5
\* most class tokens on a rating indicator
MaxClassTokens == 3
\* most non-empty listing pages the site serves during one crawl
MaxSitePages == 2
\* largest integer max_pages given to scrape
MaxPagesArg == 2
\* most rows in the books table before insert_books_bulk is called
MaxStored == 2
\* longest batch given to insert_books_bulk
MaxBatch == 3

\* ------------------------------------------------------- program constants
\* time.sleep(0.5) after a detail fetch, in tenths of a time unit
DetailWait == 5
\* time.sleep(1) after a category, in tenths of a time unit
CategoryWait == 10
\* Config.MAX_RETRIES, the default of fetch_page's retries parameter
MAX_RETRIES == 3

\* --------------------------------------------------------- text as tokens
SeqsUpTo(S, n) == UNION {[1..k -> S] : k \in 0..n}

\* str.startswith
StartsWith(s, prefix) ==
    /\ Len(s) >= Len(prefix)
    /\ SubSeq(s, 1, Len(prefix)) = prefix

\* str.replace(old, new): every non-overlapping occurrence, left to right
RECURSIVE Replace(_, _, _)
Replace(s, old, new) ==
    IF s = <<>> THEN <<>>
    ELSE IF StartsWith(s, old)
         THEN new \o Replace(SubSeq(s, Len(old) + 1, Len(s)), old, new)
         ELSE <<Head(s)>> \o Replace(Tail(s), old, new)

\* str.strip() on a text whose whitespace is the token " "
RECURSIVE Strip(_)
Strip(s) ==
    IF s = <<>> THEN <<>>
    ELSE IF Head(s) = " " THEN Strip(Tail(s))
    ELSE IF s[Len(s)] = " " THEN Strip(SubSeq(s, 1, Len(s) - 1))
    ELSE s

\* the default base_url of BooksScraper, "https://books.toscrape.com/"
base_url == <<"http", "s://books.toscrape.com/">>

\* ------------------------------------------------------------- fetch_page
\* What one session.get + raise_for_status can end in.
Outcome == {"ok", "timeout", "http_error", "conn_error", "ssl_error"}

\* requests.exceptions.SSLError
IsSSLError(o) == o = "ssl_error"

\* a handler that lets the HTTPError of raise_for_status pass
IsRequestException_no404(o) ==
    o \in {"timeout", "conn_error", "ssl_error", "invalid_url"}

\* requests.RequestException and its subclasses (Timeout, HTTPError,
\* ConnectionError, SSLError, MissingSchema)
IsRequestException(o) ==
    o \in {"timeout", "http_error", "conn_error", "ssl_error", "invalid_url"}

\* session.get(url, ...): a URL without a scheme is refused by requests with
\* MissingSchema before anything is sent; otherwise the network decides.
session_get(url, o) ==
    IF StartsWith(url, <<"http">>) THEN o ELSE "invalid_url"

\* BaseScraper.__init__ keeps the flag it is given
BaseScraper_init(verify_ssl) == verify_ssl

\* BooksScraper.__init__(verify_ssl=False): the constructor argument is
\* "default" when the caller passes none
BooksScraper_init(arg) ==
    BaseScraper_init(IF arg = "default" THEN FALSE ELSE arg = "true")

\* the running record of one fetch_page call
NoCalls == [gets |-> <<>>, sleeps |-> <<>>]

Returned(ret, acc) ==
    [ret |-> ret, raised |-> FALSE, gets |-> acc.gets, sleeps |-> acc.sleeps]

Propagated(acc) ==
    [ret |-> "None", raised |-> TRUE, gets |-> acc.gets, sleeps |-> acc.sleeps]

\* for attempt in range(retries)
InRange_offByOne(attempt, retries) == attempt <= retries
InRange(attempt, retries) == attempt < retries

\* time.sleep(2 ** attempt)
Backoff_linear(attempt) == 2 * attempt
Backoff(attempt) == 2 ^ attempt

\* if attempt < retries - 1: sleep, else: return None
ShouldRetry(attempt, retries) == attempt < retries - 1

\* return BeautifulSoup(response.content, 'html.parser')
OnSuccess(acc) == Returned("soup", acc)

\* return None after the last failed attempt
GiveUp_raise(acc) == Propagated(acc)
GiveUp(acc) == Returned("None", acc)

\* the SSLError handler sleeps and gives up exactly as the general handler
SSLBackoff(attempt) == Backoff(attempt)

RECURSIVE FetchLoop(_, _, _, _, _, _)
FetchLoop(verify, url, retries, outs, attempt, acc) ==
    IF ~InRange(attempt, retries)
    THEN Returned("None", acc)          \* the loop ends: implicit return None
    ELSE
      LET o    == session_get(url, outs[attempt + 1])
          acc1 == [acc EXCEPT !.gets = Append(@, [verify |-> verify, outcome |-> o])]
      IN  IF o = "ok" THEN OnSuccess(acc1)
          ELSE IF IsSSLError(o)
          THEN IF ShouldRetry(attempt, retries)
               THEN FetchLoop(verify, url, retries, outs, attempt + 1,
                              [acc1 EXCEPT !.sleeps = Append(@, SSLBackoff(attempt))])
               ELSE GiveUp(acc1)
          ELSE IF IsRequestException(o)
          THEN IF ShouldRetry(attempt, retries)
               THEN FetchLoop(verify, url, retries, outs, attempt + 1,
                              [acc1 EXCEPT !.sleeps = Append(@, Backoff(attempt))])
               ELSE GiveUp(acc1)
          ELSE Propagated(acc1)

\* fetch_page(url, retries); outs are the network's answers to the GETs
fetch_page(verify, url, retries, outs) ==
    FetchLoop(verify, url, retries, outs, 0, NoCalls)

\* ---------------------------------------------------------- extract_price
Digits == {"0", "1", "2", "3", "4", "5", "6", "7", "8", "9"}

DigitVal(c) ==
    CASE c = "0" -> 0 [] c = "1" -> 1 [] c = "2" -> 2 [] c = "3" -> 3
      [] c = "4" -> 4 [] c = "5" -> 5 [] c = "6" -> 6 [] c = "7" -> 7
      [] c = "8" -> 8 [] c = "9" -> 9

\* the character class [\d.]
IsPriceChar(c) == c \in Digits \cup {"."}

\* re.search(r'[\d.]+', text): the leftmost, longest run; <<>> when no match
RECURSIVE RunFrom(_, _)
RunFrom(text, i) ==
    IF i > Len(text) \/ ~IsPriceChar(text[i]) THEN <<>>
    ELSE <<text[i]>> \o RunFrom(text, i + 1)

re_search(text) ==
    LET starts == {i \in 1..Len(text) : IsPriceChar(text[i])}
    IN  IF starts = {} THEN <<>>
        ELSE RunFrom(text, CHOOSE i \in starts : \A j \in starts : i <= j)

\* the value of a digit string
RECURSIVE IntOf(_)
IntOf(ds) ==
    IF ds = <<>> THEN 0
    ELSE 10 * IntOf(SubSeq(ds, 1, Len(ds) - 1)) + DigitVal(ds[Len(ds)])

\* a decimal value: its whole part and its fraction digits, trailing zeros cut
RECURSIVE CutZeros(_)
CutZeros(ds) ==
    IF ds # <<>> /\ ds[Len(ds)] = "0" THEN CutZeros(SubSeq(ds, 1, Len(ds) - 1))
    ELSE ds

Decimal(whole, frac) == [whole |-> whole, frac |-> CutZeros(frac)]

Zero == Decimal(0, <<>>)

\* float(s) for s made of digits and points: a numeral has at most one
\* point and at least one digit; anything else is a ValueError
float_valid(s) ==
    /\ Cardinality({i \in 1..Len(s) : s[i] = "."}) <= 1
    /\ \E i \in 1..Len(s) : s[i] \in Digits

float_value(s) ==
    LET dots == {i \in 1..Len(s) : s[i] = "."}
        d    == IF dots = {} THEN Len(s) + 1 ELSE CHOOSE i \in dots : TRUE
    IN  Decimal(IntOf(SubSeq(s, 1, d - 1)), SubSeq(s, d + 1, Len(s)))

\* extract_price(price_text): the value, or the ValueError float() raises
extract_price(price_text) ==
    LET m == re_search(price_text)
    IN  IF m = <<>> THEN [raised |-> FALSE, value |-> Zero]
        ELSE IF float_valid(m) THEN [raised |-> FALSE, value |-> float_value(m)]
        ELSE [raised |-> TRUE, value |-> Zero]

\* --------------------------------------------------------- extract_rating
\* self.rating_map, in insertion order
rating_words == <<"One", "Two", "Three", "Four", "Five">>

rating_map_shifted(word) ==
    CASE word = "One" -> 2 [] word = "Two" -> 3 [] word = "Three" -> 4
      [] word = "Four" -> 5 [] word = "Five" -> 6
rating_map(word) ==
    CASE word = "One" -> 1 [] word = "Two" -> 2 [] word = "Three" -> 3
      [] word = "Four" -> 4 [] word = "Five" -> 5

\* return 0: none of the words was found
NoRatingWord_unset == 0 - 1
NoRatingWord == 0

\* word in rating_class, rating_class being the element's list of class tokens
Contains(rating_class, word) == \E i \in 1..Len(rating_class) : rating_class[i] = word

\* extract_rating(rating_class): the first word of the map found among the tokens
extract_rating(rating_class) ==
    LET hits == {k \in 1..Len(rating_words) : Contains(rating_class, rating_words[k])}
    IN  IF hits = {} THEN NoRatingWord
        ELSE rating_map(rating_words[CHOOSE k \in hits : \A j \in hits : k <= j])

\* ------------------------------------------------- entry link normalization
Up == <<"../">>
UpUpUp == <<"../", "../", "../">>

\* scrape_page: "Extract and construct proper URL"
NormalizeBookUrl_singleFirst(book_url) ==
    IF book_url = <<>> THEN book_url
    ELSE IF StartsWith(book_url, <<"http">>) THEN book_url
    ELSE IF StartsWith(book_url, Up)
    THEN base_url \o <<"catalogue/">> \o Replace(book_url, Up, <<>>)
    ELSE IF StartsWith(book_url, UpUpUp)
    THEN base_url \o Replace(book_url, UpUpUp, <<>>)
    ELSE base_url \o (IF ~StartsWith(book_url, <<"catalogue/">>)
                      THEN <<"catalogue/">> \o book_url
                      ELSE book_url)
NormalizeBookUrl(book_url) ==
    IF book_url = <<>> THEN book_url
    ELSE IF StartsWith(book_url, <<"http">>) THEN book_url
    ELSE IF StartsWith(book_url, UpUpUp)
    THEN base_url \o Replace(book_url, UpUpUp, <<>>)
    ELSE IF StartsWith(book_url, Up)
    THEN base_url \o <<"catalogue/">> \o Replace(book_url, Up, <<>>)
    ELSE base_url \o (IF ~StartsWith(book_url, <<"catalogue/">>)
                      THEN <<"catalogue/">> \o book_url
                      ELSE book_url)

\* is_catalogue_page = 'catalogue' in page_url
is_catalogue_page(page_url) ==
    \E i \in 1..Len(page_url) : page_url[i] = "catalogue/"

\* a normalization that resolves '../../../X' against the catalogue on a
\* catalogue page
BookUrl_byPageType(page_url, book_url) ==
    IF is_catalogue_page(page_url) /\ book_url # <<>> /\ StartsWith(book_url, UpUpUp)
    THEN base_url \o <<"catalogue/">> \o Replace(book_url, UpUpUp, <<>>)
    ELSE NormalizeBookUrl(book_url)

\* scrape_page: the source URL of an entry of the page at page_url;
\* is_catalogue_page is computed and not used
BookUrl(page_url, book_url) ==
    LET unused == is_catalogue_page(page_url)
    IN  NormalizeBookUrl(book_url)

\* scrape_category: "Extract URL"
CategoryBookUrl(book_url) ==
    IF book_url # <<>> /\ StartsWith(book_url, Up)
    THEN base_url \o <<"catalogue/">>
             \o Replace(Replace(book_url, UpUpUp, <<>>), Up, <<>>)
    ELSE book_url

\* ------------------------------------------------------------------ state
VARIABLES
    \* one fetch_page call on a constructed scraper
    f_ctor,          \* the verify_ssl argument given to BooksScraper(...)
    verify_ssl,      \* self.verify_ssl
    f_call,          \* the call made, if any: url, retries, network answers
    f_res,           \* what the call returned, if it was made
    \* one call of a pure extraction function
    price_text, price_ret,
    rating_class, rating_ret,
    link, link_ret,
    \* one crawl: scrape(max_pages, include_details, by_category)
    pc,              \* "new", "flat", "discover", "category", "done", "raised"
    max_pages,       \* <<>> is None
    include_details,
    by_category,
    page_num,
    all_books,
    categories,      \* what scrape_categories returned
    cat_idx,         \* the category being walked
    cat_books,       \* scrape_category's all_books
    fetched,         \* the listing and root URLs given to fetch_page, in order
    served,          \* non-empty listing pages the site has served
    last_fetch,      \* what the latest listing or root fetch_page call did
    walked,          \* the listing pages asked for, in order: stream, page
                     \* number, whether a soup came back, its containers
    cat_returns,     \* what each scrape_category call returned, in order
    trace,           \* the page requests and the waits of the crawl, in
                     \* order (the waits inside fetch_page are in last_fetch)
    root_soup,       \* what scrape_categories got for the site root, once
                     \* it asked: <<>> is None
    last_page,       \* the latest scrape_page call: containers, what the
                     \* site did for each detail fetch, the books returned
    \* one catalog-entry fragment given to both page scrapers
    fragment,        \* the container, once chosen
    flat_ret,        \* what scrape_page made of a page holding it
    cat_ret,         \* what scrape_category made of a page holding it
    \* the books table and one insert_books_bulk call
    store,           \* the rows of the table, in insertion order
    db_call,         \* the call made, if any: the batch, the rows before it
    db_ret           \* what the call returned, if it was made

crawlVars == <<pc, max_pages, include_details, by_category, page_num, all_books,
               categories, cat_idx, cat_books, fetched, served, last_fetch,
               walked, cat_returns, last_page, root_soup, trace>>

vars == <<f_ctor, verify_ssl, f_call, f_res,
          price_text, price_ret, rating_class, rating_ret, link, link_ret,
          crawlVars, fragment, flat_ret, cat_ret, store, db_call, db_ret>>

fetchVars  == <<f_ctor, verify_ssl, f_call, f_res>>
priceVars  == <<price_text, price_ret>>
ratingVars == <<rating_class, rating_ret>>
linkVars   == <<link, link_ret>>
entryVars  == <<fragment, flat_ret, cat_ret>>
dbVars     == <<store, db_call, db_ret>>

FetchIdle  == f_ctor = "default" /\ verify_ssl = FALSE /\ f_call = <<>> /\ f_res = <<>>
PriceIdle  == price_text = <<>> /\ price_ret = <<>>
RatingIdle == rating_class = <<>> /\ rating_ret = <<>>
LinkIdle   == link = <<>> /\ link_ret = <<>>
EntryIdle  == fragment = <<>> /\ flat_ret = <<>> /\ cat_ret = <<>>
DbIdle     == store = <<>> /\ db_call = <<>> /\ db_ret = <<>>
CrawlIdle  ==
    /\ pc = "off" /\ max_pages = <<>> /\ include_details = FALSE
    /\ by_category = FALSE /\ page_num = 0 /\ all_books = <<>>
    /\ categories = <<>> /\ cat_idx = 0 /\ cat_books = <<>>
    /\ fetched = <<>> /\ served = 0 /\ last_fetch = <<>>
    /\ walked = <<>> /\ cat_returns = <<>> /\ last_page = <<>>
    /\ root_soup = <<>> /\ trace = <<>>

\* ------------------------------------------------- fetch_page, one call
CtorArgs == {"default", "true", "false"}
FetchUrls == {base_url, <<"catalogue/", "page-2.html">>}

\* the network's answers to the next GETs: one more than the budget, so an
\* attempt beyond the budget would be seen
Answers(retries) == [1..(retries + 1) -> Outcome]

FetchInit ==
    /\ f_ctor \in CtorArgs
    /\ verify_ssl = BooksScraper_init(f_ctor)
    /\ f_call = <<>>
    /\ f_res = <<>>

\* fetch_page(url): retries takes its default, Config.MAX_RETRIES
FetchPageDefault ==
    /\ f_call = <<>>
    /\ \E url \in FetchUrls, outs \in Answers(MAX_RETRIES) :
         /\ f_call' = <<[url |-> url, retries |-> MAX_RETRIES, outs |-> outs]>>
         /\ f_res' = <<fetch_page(verify_ssl, url, MAX_RETRIES, outs)>>
    /\ UNCHANGED <<f_ctor, verify_ssl>>

\* fetch_page(url, retries=n)
FetchPageRetries ==
    /\ f_call = <<>>
    /\ \E url \in FetchUrls, n \in 0..MaxRetriesArg :
         \E outs \in Answers(n) :
           /\ f_call' = <<[url |-> url, retries |-> n, outs |-> outs]>>
           /\ f_res' = <<fetch_page(verify_ssl, url, n, outs)>>
    /\ UNCHANGED <<f_ctor, verify_ssl>>

FetchNext ==
    \/ FetchPageDefault /\ UNCHANGED <<priceVars, ratingVars, linkVars, crawlVars, entryVars, dbVars>>
    \/ FetchPageRetries /\ UNCHANGED <<priceVars, ratingVars, linkVars, crawlVars, entryVars, dbVars>>

SpecFetchInit ==
    FetchInit /\ PriceIdle /\ RatingIdle /\ LinkIdle /\ CrawlIdle /\ EntryIdle /\ DbIdle

SpecFetch == SpecFetchInit /\ [][FetchNext]_vars

\* ---------------------------------------------- extract_price, one call
PriceChars == {"£", "1", "5", "7", "."}

ExtractPrice ==
    /\ price_ret = <<>>
    /\ price_ret' = <<extract_price(price_text)>>
    /\ UNCHANGED <<price_text, fetchVars, ratingVars, linkVars, crawlVars, entryVars, dbVars>>

PriceNext == ExtractPrice

PriceInit ==
    /\ price_text \in SeqsUpTo(PriceChars, MaxPriceLen) /\ price_ret = <<>>
    /\ FetchIdle /\ RatingIdle /\ LinkIdle /\ CrawlIdle /\ EntryIdle /\ DbIdle

SpecPrice == PriceInit /\ [][PriceNext]_vars

\* --------------------------------------------- extract_rating, one call
ClassTokens == {"star-rating", "One", "Two", "Three", "Four", "Five", "one"}

ExtractRating ==
    /\ rating_ret = <<>>
    /\ rating_ret' = <<extract_rating(rating_class)>>
    /\ UNCHANGED <<rating_class, fetchVars, priceVars, linkVars, crawlVars, entryVars, dbVars>>

RatingInit ==
    /\ rating_class \in SeqsUpTo(ClassTokens, MaxClassTokens) /\ rating_ret = <<>>
    /\ FetchIdle /\ PriceIdle /\ LinkIdle /\ CrawlIdle /\ EntryIdle /\ DbIdle

SpecRating == RatingInit /\ [][ExtractRating]_vars

\* ------------------------------------- link normalization, one entry link
LinkTokens == {"http", "../", "catalogue/", "foo/index.html"}

ScrapePageUrl ==
    /\ link_ret = <<>>
    /\ link_ret' = <<NormalizeBookUrl(link)>>
    /\ UNCHANGED <<link, fetchVars, priceVars, ratingVars, crawlVars, entryVars, dbVars>>

LinkInit ==
    /\ link \in SeqsUpTo(LinkTokens, MaxLinkLen) /\ link_ret = <<>>
    /\ FetchIdle /\ PriceIdle /\ RatingIdle /\ CrawlIdle /\ EntryIdle /\ DbIdle

SpecUrl == LinkInit /\ [][ScrapePageUrl]_vars

\* ============================================================== the crawl
\* --------------------------------------------------------- listing markup
\* One <article class="product_pod">: the h3 > a element (its title and href
\* attributes, <<>> for '' or a missing attribute) and the price,
\* availability and rating elements, each <<>> when find() returns None.
Container(title, href, price, avail, rating) ==
    [title_elem |-> <<[title |-> title, href |-> href]>>,
     price_elem |-> price, availability_elem |-> avail, rating_elem |-> rating]

\* a well-formed entry, linked as on a page three levels down
bookA == Container(<<"A">>, <<"../", "../", "../", "catalogue/", "a/index.html">>,
                   <<<<"£", "5", "1", ".", "7", "7">>>>,
                   <<<<" ", "In stock", " ">>>>, <<<<"star-rating", "Three">>>>)
\* price, availability and rating elements missing; a bare link
bookB == Container(<<"B">>, <<"b/index.html">>, <<>>, <<>>, <<>>)
\* a price text without a number and a rating without a word; linked as on
\* a catalogue page
bookC == Container(<<"C">>, <<"../", "c/index.html">>,
                   <<<<"f", "r", "e", "e">>>>,
                   <<<<"Out of stock">>>>, <<<<"star-rating">>>>)
\* no h3 > a element, and nothing else missing
bookD == [title_elem |-> <<>>, price_elem |-> <<<<"£", "7">>>>,
          availability_elem |-> <<<<"In stock">>>>,
          rating_elem |-> <<<<"star-rating", "Two">>>>]
\* a price text whose first run of digits and points is a lone point
bookE == Container(<<"E">>, <<"catalogue/", "e/index.html">>,
                   <<<<"N", ".", "A", ".">>>>,
                   <<<<"In stock">>>>, <<<<"star-rating", "One">>>>)
\* no href on the link
bookF == Container(<<"F">>, <<>>, <<<<"£", "1", "5">>>>,
                   <<<<"In stock">>>>, <<<<"Five", "star-rating">>>>)

\* the listing pages the site can answer with: their containers, in
\* document order
ListingPages ==
    { <<>>, <<bookA, bookC>>, <<bookD, bookB>>, <<bookE>>, <<bookF, bookA>> }

\* ---------------------------------------------------------- detail markup
\* A detail page: the breadcrumb's link texts, the paragraph after the
\* description marker, the src of the active image, the table rows (th, td).
detailGood ==
    [breadcrumb |-> <<<< <<"Home">>, <<"Books">>, <<" ", "Poetry", " ">> >>>>,
     description |-> <<<< <<"It's hard to imagine">> >>>>,
     image |-> <<<< <<"../", "../", "media/", "a.jpg">> >>>>,
     table |-> <<<< [th |-> "UPC", td |-> <<"a", "8", "9">>],
                    [th |-> "Product Type", td |-> <<"Books">>],
                    [th |-> "Price (excl. tax)", td |-> <<"£", "5", "1", ".", "7", "7">>],
                    [th |-> "Price (incl. tax)", td |-> <<"£", "5", "1", ".", "7", "7">>],
                    [th |-> "Tax", td |-> <<"£", "0", ".", "0", "0">>],
                    [th |-> "Availability", td |-> <<"In stock", " (22 available)">>],
                    [th |-> "Number of reviews", td |-> <<"1", "5">>] >>>>]

\* a short breadcrumb, no description, no image, a tax that is no numeral
detailBad ==
    [breadcrumb |-> <<<< <<"Home">>, <<"Books">> >>>>,
     description |-> <<>>,
     image |-> <<>>,
     table |-> <<<< [th |-> "UPC", td |-> <<"b", "7">>],
                    [th |-> "Tax", td |-> <<"1", ".", "2", ".", "3">>] >>>>]

\* a category, a description and a product code, then a tax that is no
\* numeral
detailPartial ==
    [breadcrumb |-> <<<< <<"Home">>, <<"Books">>, <<"Travel">> >>>>,
     description |-> <<<< <<"A guide">> >>>>,
     image |-> <<>>,
     table |-> <<<< [th |-> "UPC", td |-> <<"c", "1">>],
                    [th |-> "Price (excl. tax)", td |-> <<"£", "7", ".", "5">>],
                    [th |-> "Tax", td |-> <<"£", ".">>],
                    [th |-> "Number of reviews", td |-> <<"2">>] >>>>]

DetailPages == {detailGood, detailBad, detailPartial}

\* header.text.strip().lower().replace(' ', '_').replace('(', '')
\*       .replace(')', '').replace('.', '')
NormalizeKey(th) ==
    CASE th = "UPC" -> "upc"
      [] th = "Product Type" -> "product_type"
      [] th = "Price (excl. tax)" -> "price_excl_tax"
      [] th = "Price (incl. tax)" -> "price_incl_tax"
      [] th = "Tax" -> "tax"
      [] th = "Availability" -> "availability"
      [] th = "Number of reviews" -> "number_of_reviews"

\* str.isdigit() and int()
isdigit(text) == text # <<>> /\ \A i \in 1..Len(text) : text[i] \in Digits

\* the fetch scenarios of the crawl: the network's answers to the GETs of
\* one fetch_page call
AllOk       == <<"ok", "ok", "ok", "ok">>
RetryThenOk == <<"timeout", "ssl_error", "ok", "ok">>
CertFail    == <<"ssl_error", "ssl_error", "ssl_error", "ssl_error">>
MixedFail   == <<"http_error", "timeout", "conn_error", "ssl_error">>
FetchScenarios == {AllOk, RetryThenOk, CertFail, MixedFail}

\* what the site does for one detail fetch
DetailChoices ==
    {[outs |-> MixedFail, page |-> detailGood]}
      \cup {[outs |-> AllOk, page |-> d] : d \in DetailPages}

\* ---------------------------------------------------- scrape_book_details
EmptyDict == [k \in {} |-> 0]

\* a row loop that keeps every row of the table under its key
ApplyRow_everyKey(details, row) ==
    LET key   == NormalizeKey(row.th)
        value == Strip(row.td)
        price == extract_price(value)
    IN  IF key \in {"price_excl_tax", "price_incl_tax", "tax"}
        THEN IF price.raised
             THEN [raised |-> TRUE, details |-> details]
             ELSE [raised |-> FALSE, details |-> (key :> price.value) @@ details]
        ELSE IF key = "number_of_reviews"
        THEN [raised |-> FALSE,
              details |-> (key :> (IF isdigit(value) THEN IntOf(value) ELSE 0)) @@ details]
        ELSE [raised |-> FALSE, details |-> (key :> value) @@ details]

\* one row of the product information table; raised is extract_price's error
ApplyRow(details, row) ==
    LET key   == NormalizeKey(row.th)
        value == Strip(row.td)
        price == extract_price(value)
    IN  IF key \in {"upc", "product_type"}
        THEN [raised |-> FALSE, details |-> (key :> value) @@ details]
        ELSE IF key \in {"price_excl_tax", "price_incl_tax", "tax"}
        THEN IF price.raised
             THEN [raised |-> TRUE, details |-> details]
             ELSE [raised |-> FALSE, details |-> (key :> price.value) @@ details]
        ELSE IF key = "number_of_reviews"
        THEN [raised |-> FALSE,
              details |-> (key :> (IF isdigit(value) THEN IntOf(value) ELSE 0)) @@ details]
        ELSE [raised |-> FALSE, details |-> details]

\* a row loop that stops at the row that raises and keeps what it has
RECURSIVE ApplyRows_keepPartial(_, _)
ApplyRows_keepPartial(details, rows) ==
    IF rows = <<>> THEN [raised |-> FALSE, details |-> details]
    ELSE LET r == ApplyRow(details, Head(rows))
         IN  IF r.raised THEN [raised |-> FALSE, details |-> r.details]
             ELSE ApplyRows_keepPartial(r.details, Tail(rows))

RECURSIVE ApplyRows(_, _)
ApplyRows(details, rows) ==
    IF rows = <<>> THEN [raised |-> FALSE, details |-> details]
    ELSE LET r == ApplyRow(details, Head(rows))
         IN  IF r.raised THEN r ELSE ApplyRows(r.details, Tail(rows))

\* the body of the try block: the details dictionary, or an exception
ExtractDetails(page) ==
    LET d1 == IF page.breadcrumb = <<>> THEN EmptyDict
              ELSE LET category_links == page.breadcrumb[1]
                   IN  IF Len(category_links) >= 3
                       THEN "category" :> Strip(category_links[3])
                       ELSE "category" :> <<"Unknown">>
        d2 == IF page.description = <<>> THEN d1
              ELSE ("description" :> Strip(page.description[1])) @@ d1
        d3 == IF page.image = <<>> \/ page.image[1] = <<>> THEN d2
              ELSE LET img_src == page.image[1]
                   IN  IF StartsWith(img_src, <<"../", "../">>)
                       THEN ("image_url" :> (base_url \o Replace(img_src, <<"../", "../">>, <<>>))) @@ d2
                       ELSE ("image_url" :> img_src) @@ d2
    IN  IF page.table = <<>> THEN [raised |-> FALSE, details |-> d3]
        ELSE ApplyRows(d3, page.table[1])

\* a failed detail fetch raising in place of 'return None'
scrape_book_details_raise(verify, book_url, choice) ==
    LET r == fetch_page(verify, book_url, MAX_RETRIES, choice.outs)
    IN  IF r.raised \/ r.ret = "None" THEN [raised |-> TRUE, details |-> <<>>]
        ELSE LET x == ExtractDetails(choice.page)
             IN  IF x.raised THEN [raised |-> FALSE, details |-> <<>>]
                 ELSE [raised |-> FALSE, details |-> <<x.details>>]

\* scrape_book_details(book_url): <<>> is None
scrape_book_details(verify, book_url, choice) ==
    LET r == fetch_page(verify, book_url, MAX_RETRIES, choice.outs)
    IN  IF r.raised THEN [raised |-> TRUE, details |-> <<>>]
        ELSE IF r.ret = "None" THEN [raised |-> FALSE, details |-> <<>>]
        ELSE LET x == ExtractDetails(choice.page)
             IN  IF x.raised THEN [raised |-> FALSE, details |-> <<>>]
                 ELSE [raised |-> FALSE, details |-> <<x.details>>]

\* ------------------------------------------------------------ scrape_page
\* title, price, availability and rating of one container; raised when
\* h3 > a is missing (AttributeError) or the price is no numeral (ValueError)
ExtractFields(book) ==
    IF book.title_elem = <<>> THEN [raised |-> TRUE]
    ELSE
      LET title_elem == book.title_elem[1]
          price == IF book.price_elem # <<>>
                   THEN extract_price(book.price_elem[1])
                   ELSE [raised |-> FALSE, value |-> Zero]
      IN  IF price.raised THEN [raised |-> TRUE]
          ELSE [raised |-> FALSE,
                title |-> title_elem.title,
                price |-> price.value,
                availability |-> IF book.availability_elem # <<>>
                                 THEN Strip(book.availability_elem[1])
                                 ELSE <<"Unknown">>,
                rating |-> IF book.rating_elem # <<>>
                           THEN extract_rating(book.rating_elem[1])
                           ELSE 0,
                href |-> title_elem.href]

\* 'category': 'Unknown' whatever the context
book_data_unknown(f, book_url, category) ==
    [title |-> f.title, price |-> f.price, availability |-> f.availability,
     rating |-> f.rating, url |-> book_url, category |-> <<"Unknown">>]

book_data(f, book_url, category) ==
    [title |-> f.title, price |-> f.price, availability |-> f.availability,
     rating |-> f.rating, url |-> book_url, category |-> category]

\* the entry loop of scrape_page; dets[idx] is what the site does for the
\* detail fetch of container idx
RECURSIVE ScrapeEntries(_, _, _, _, _, _, _)
ScrapeEntries(page_url, verify, book_containers, idx, details_wanted, dets, books) ==
    IF idx > Len(book_containers) THEN books
    ELSE
      LET f == ExtractFields(book_containers[idx])
          book_url == BookUrl(page_url, f.href)
          basic == book_data(f, book_url, <<"Unknown">>)
          d == scrape_book_details(verify, book_url, dets[idx])
          next(bs) == ScrapeEntries(page_url, verify, book_containers, idx + 1,
                                    details_wanted, dets, bs)
      IN  IF f.raised THEN next(books)
          ELSE IF details_wanted /\ book_url # <<>>
          THEN IF d.raised THEN next(books)
               ELSE IF d.details # <<>> /\ d.details[1] # EmptyDict
               THEN next(Append(books, d.details[1] @@ basic))
               ELSE next(Append(books, basic))
          ELSE next(Append(books, basic))

\* a page request and a wait, as events
Get(page, url) == [op |-> "get", page |-> page, url |-> url, tenths |-> 0]
Sleep(tenths) == [op |-> "sleep", page |-> "", url |-> <<>>, tenths |-> tenths]

\* time.sleep(0.5) inside 'if details:'
AfterDetail_onSuccess(d) ==
    IF d.raised \/ d.details = <<>> THEN <<>> ELSE <<Sleep(DetailWait)>>

\* time.sleep(0.5) after the detail call, unless the call raised
AfterDetail(d) == IF d.raised THEN <<>> ELSE <<Sleep(DetailWait)>>

\* the detail requests and waits of the entry loop of scrape_page
RECURSIVE DetailEvents(_, _, _, _, _, _)
DetailEvents(page_url, verify, book_containers, idx, details_wanted, dets) ==
    IF idx > Len(book_containers) THEN <<>>
    ELSE
      LET f == ExtractFields(book_containers[idx])
          book_url == BookUrl(page_url, f.href)
          d == scrape_book_details(verify, book_url, dets[idx])
          rest == DetailEvents(page_url, verify, book_containers, idx + 1,
                               details_wanted, dets)
      IN  IF ~f.raised /\ details_wanted /\ book_url # <<>>
          THEN <<Get("detail", book_url)>> \o AfterDetail(d) \o rest
          ELSE rest

\* the requests and waits of scrape_page after its listing fetch
ScrapeEvents(page_url, verify, soup, details_wanted, dets) ==
    IF soup = <<>> THEN <<>>
    ELSE DetailEvents(page_url, verify, soup[1], 1, details_wanted, dets)

\* scrape_page(page_url, include_details) on the page the fetch returned
scrape_page(page_url, verify, soup, details_wanted, dets) ==
    IF soup = <<>> THEN <<>>
    ELSE ScrapeEntries(page_url, verify, soup[1], 1, details_wanted, dets, <<>>)

\* ------------------------------------------------------ scrape_categories
\* the links of <div class="side_categories">, in document order
catBooks  == [text |-> <<" ", "Books", " ">>,
              href |-> <<"catalogue/", "category/", "books_1/", "index.html">>]
catTravel == [text |-> <<" ", "Travel", " ">>,
              href |-> <<"../", "category/", "travel_2/", "index.html">>]
catPoetry == [text |-> <<"Poetry">>,
              href |-> <<"catalogue/", "category/", "poetry_23/", "index.html">>]
catArt    == [text |-> <<"Art">>, href |-> <<"../", "category/", "art_25/">>]
catNone   == [text |-> <<"None">>, href |-> <<>>]

\* the sidebars the root page can have; <<>> is a root page without one
Sidebars ==
    { <<>>,
      << <<catBooks>> >>,
      << <<catBooks, catTravel, catPoetry>> >>,
      << <<catBooks, catNone, catTravel>> >>,
      << <<catBooks, catArt, catTravel>> >> }

RECURSIVE CategoryList(_, _)
CategoryList(category_links, cats) ==
    IF category_links = <<>> THEN cats
    ELSE
      LET a == Head(category_links)
          category_name == Strip(a.text)
          category_url == IF StartsWith(a.href, Up)
                          THEN base_url \o Replace(a.href, Up, <<>>)
                          ELSE a.href
      IN  IF a.href # <<>>
          THEN CategoryList(Tail(category_links),
                            Append(cats, [name |-> category_name, url |-> category_url]))
          ELSE CategoryList(Tail(category_links), cats)

\* find_all('a') without the [1:]
scrape_categories_all(soup) ==
    IF soup = <<>> THEN <<>>
    ELSE IF soup[1] = <<>> THEN <<>>
    ELSE CategoryList(soup[1][1], <<>>)

\* scrape_categories() on the root page the fetch returned
scrape_categories(soup) ==
    IF soup = <<>> THEN <<>>
    ELSE IF soup[1] = <<>> THEN <<>>
    ELSE CategoryList(Tail(soup[1][1]), <<>>)

\* -------------------------------------------------------- scrape_category
\* the entry loop of scrape_category giving every entry a upc, as an
\* enrichment would
Enriched(entry) == ("upc" :> <<"a">>) @@ entry

RECURSIVE CategoryEntries_enriched(_, _, _, _)
CategoryEntries_enriched(book_containers, idx, category_name, books) ==
    IF idx > Len(book_containers) THEN books
    ELSE
      LET f == ExtractFields(book_containers[idx])
          book_url == CategoryBookUrl(f.href)
      IN  IF f.raised
          THEN CategoryEntries_enriched(book_containers, idx + 1, category_name, books)
          ELSE CategoryEntries_enriched(book_containers, idx + 1, category_name,
                 Append(books, Enriched(book_data(f, book_url, category_name))))

RECURSIVE CategoryEntries(_, _, _, _)
CategoryEntries(book_containers, idx, category_name, books) ==
    IF idx > Len(book_containers) THEN books
    ELSE
      LET f == ExtractFields(book_containers[idx])
          book_url == CategoryBookUrl(f.href)
      IN  IF f.raised
          THEN CategoryEntries(book_containers, idx + 1, category_name, books)
          ELSE CategoryEntries(book_containers, idx + 1, category_name,
                               Append(books, book_data(f, book_url, category_name)))

PageToken(n) == "page-" \o ToString(n) \o ".html"

\* page_num - 1 in the file name of the page
CategoryPageUrl_previous(category_url, n) ==
    IF n = 1 THEN category_url
    ELSE Replace(category_url, <<"index.html">>, <<PageToken(n - 1)>>)

\* the page URL of a category stream
CategoryPageUrl(category_url, n) ==
    IF n = 1 THEN category_url
    ELSE Replace(category_url, <<"index.html">>, <<PageToken(n)>>)

\* the page URL of the flat stream
FlatPageUrl(n) ==
    IF n > 1 THEN base_url \o <<"catalogue/", PageToken(n)>> ELSE base_url

\* ----------------------------------------------------------------- scrape
\* Python truth of an int | None
Truthy(opt) == opt # <<>> /\ opt[1] # 0

\* if max_pages and page_num >= max_pages: break
PageLimitReached_early(limit, n) == Truthy(limit) /\ n >= limit[1]

\* if max_pages and page_num > max_pages: break
PageLimitReached(limit, n) == Truthy(limit) /\ n > limit[1]

\* max_pages=1 if max_pages else None
CategoryLimit(limit) == IF Truthy(limit) THEN <<1>> ELSE <<>>

\* all_books = books in place of all_books.extend(books)
extend_replace(list, items) == items

\* all_books.extend(books)
extend(list, items) == list \o items

\* the loop over the categories left after the first stream
MoreCategories_none(idx, cats) == idx < 1

\* for category in categories: there is a category after the idx-th
MoreCategories(idx, cats) == idx < Len(cats)

MaxPagesArgs == {<<>>} \cup {<<n>> : n \in 0..MaxPagesArg}

\* the pages the site can answer a listing GET with: it serves at most
\* MaxSitePages non-empty listing pages during one crawl
Servable == IF served < MaxSitePages THEN ListingPages ELSE {<<>>}

NoDetails(page) == [i \in 1..Len(page) |-> CHOOSE c \in DetailChoices : TRUE]

DetailPlans(page) ==
    IF include_details THEN [1..Len(page) -> DetailChoices] ELSE {NoDetails(page)}

CrawlInit ==
    /\ pc = "new" /\ max_pages = <<>> /\ include_details = FALSE
    /\ by_category = FALSE /\ page_num = 0 /\ all_books = <<>>
    /\ categories = <<>> /\ cat_idx = 0 /\ cat_books = <<>>
    /\ fetched = <<>> /\ served = 0 /\ last_fetch = <<>>
    /\ walked = <<>> /\ cat_returns = <<>> /\ last_page = <<>>
    /\ root_soup = <<>> /\ trace = <<>>

\* scraper = BooksScraper(); scraper.scrape(max_pages, include_details, by_category)
Scrape ==
    /\ pc = "new"
    /\ \E mp \in MaxPagesArgs, det \in BOOLEAN, cat \in BOOLEAN :
         /\ max_pages' = mp
         /\ include_details' = det
         /\ by_category' = cat
         /\ pc' = IF cat THEN "discover" ELSE "flat"
    /\ page_num' = 1
    /\ UNCHANGED <<all_books, categories, cat_idx, cat_books, fetched, served,
                   last_fetch, walked, cat_returns, last_page, root_soup, trace>>

\* flat mode: the loop ends on the page limit
FlatLimit ==
    /\ pc = "flat"
    /\ PageLimitReached(max_pages, page_num)
    /\ pc' = "done"
    /\ UNCHANGED <<max_pages, include_details, by_category, page_num, all_books,
                   categories, cat_idx, cat_books, fetched, served, last_fetch,
                   walked, cat_returns, last_page, root_soup, trace>>

\* flat mode: one turn of the loop, scrape_page included
FlatPage ==
    /\ pc = "flat"
    /\ ~PageLimitReached(max_pages, page_num)
    /\ \E outs \in FetchScenarios, page \in Servable :
         \E dets \in DetailPlans(page) :
           LET page_url == FlatPageUrl(page_num)
               r == fetch_page(verify_ssl, page_url, MAX_RETRIES, outs)
               soup == IF r.ret = "soup" THEN <<page>> ELSE <<>>
               books == scrape_page(page_url, verify_ssl, soup, include_details, dets)
           IN  /\ r.ret = "None" => (page = <<>> /\ dets = NoDetails(page))
               /\ fetched' = Append(fetched, page_url)
               /\ last_fetch' = <<r>>
               /\ served' = IF soup # <<>> /\ page # <<>> THEN served + 1 ELSE served
               /\ walked' = Append(walked, [stream |-> 0, n |-> page_num,
                                            ok |-> soup # <<>>, containers |-> page])
               /\ last_page' = <<[containers |-> page, dets |-> dets, books |-> books]>>
               /\ trace' = Append(trace, Get("listing", page_url))
                             \o ScrapeEvents(page_url, verify_ssl, soup,
                                             include_details, dets)
               /\ IF r.raised
                  THEN pc' = "raised" /\ UNCHANGED <<all_books, page_num>>
                  ELSE IF books = <<>>
                  THEN pc' = "done" /\ UNCHANGED <<all_books, page_num>>
                  ELSE /\ all_books' = extend(all_books, books)
                       /\ page_num' = page_num + 1
                       /\ pc' = "flat"
    /\ UNCHANGED <<max_pages, include_details, by_category, categories, cat_idx,
                   cat_books, cat_returns, root_soup>>

\* by-category mode: categories = self.scrape_categories()
Discover ==
    /\ pc = "discover"
    /\ \E outs \in FetchScenarios, sidebar \in Sidebars :
         LET r == fetch_page(verify_ssl, base_url, MAX_RETRIES, outs)
             soup == IF r.ret = "soup" THEN <<sidebar>> ELSE <<>>
             cats == scrape_categories(soup)
         IN  /\ r.ret = "None" => sidebar = <<>>
             /\ fetched' = Append(fetched, base_url)
             /\ last_fetch' = <<r>>
             /\ categories' = cats
             /\ root_soup' = <<soup>>
             /\ trace' = Append(trace, Get("root", base_url))
             /\ IF r.raised THEN pc' = "raised" /\ cat_idx' = 0
                ELSE IF cats = <<>> THEN pc' = "done" /\ cat_idx' = 0
                ELSE pc' = "category" /\ cat_idx' = 1
    /\ page_num' = 1
    /\ UNCHANGED <<max_pages, include_details, by_category, all_books, cat_books,
                   served, walked, cat_returns, last_page>>

\* by-category mode: the category's loop ends on its page limit
CategoryLimitReached ==
    /\ pc = "category"
    /\ PageLimitReached(CategoryLimit(max_pages), page_num)
    /\ cat_books' = <<>>
    /\ cat_returns' = Append(cat_returns, cat_books)
    /\ all_books' = extend(all_books, cat_books)
    /\ trace' = Append(trace, Sleep(CategoryWait))
    /\ page_num' = 1
    /\ IF MoreCategories(cat_idx, categories)
       THEN pc' = "category" /\ cat_idx' = cat_idx + 1
       ELSE pc' = "done" /\ cat_idx' = cat_idx
    /\ UNCHANGED <<max_pages, include_details, by_category, categories,
                   fetched, served, last_fetch, walked, last_page, root_soup>>

\* by-category mode: one turn of the category's loop
CategoryPage ==
    /\ pc = "category"
    /\ ~PageLimitReached(CategoryLimit(max_pages), page_num)
    /\ \E outs \in FetchScenarios, page \in Servable :
         LET category == categories[cat_idx]
             page_url == CategoryPageUrl(category.url, page_num)
             r == fetch_page(verify_ssl, page_url, MAX_RETRIES, outs)
             books == CategoryEntries(page, 1, category.name, cat_books)
         IN  /\ r.ret = "None" => page = <<>>
             /\ fetched' = Append(fetched, page_url)
             /\ last_fetch' = <<r>>
             /\ served' = IF r.ret = "soup" /\ page # <<>> THEN served + 1 ELSE served
             /\ walked' = Append(walked, [stream |-> cat_idx, n |-> page_num,
                                          ok |-> r.ret = "soup", containers |-> page])
             /\ trace' = IF ~r.raised /\ (r.ret = "None" \/ page = <<>>)
                         THEN trace \o <<Get("listing", page_url), Sleep(CategoryWait)>>
                         ELSE Append(trace, Get("listing", page_url))
             /\ IF r.raised
                THEN /\ pc' = "raised"
                     /\ UNCHANGED <<all_books, cat_books, cat_returns, cat_idx, page_num>>
                ELSE IF r.ret = "None" \/ page = <<>>
                THEN \* break: the stream ends and its books are returned
                     /\ cat_books' = <<>>
                     /\ cat_returns' = Append(cat_returns, cat_books)
                     /\ all_books' = extend(all_books, cat_books)
                     /\ page_num' = 1
                     /\ IF MoreCategories(cat_idx, categories)
                        THEN pc' = "category" /\ cat_idx' = cat_idx + 1
                        ELSE pc' = "done" /\ cat_idx' = cat_idx
                ELSE /\ cat_books' = books
                     /\ page_num' = page_num + 1
                     /\ pc' = "category"
                     /\ UNCHANGED <<all_books, cat_returns, cat_idx>>
    /\ UNCHANGED <<max_pages, include_details, by_category, categories, last_page,
                   root_soup>>

CrawlNext ==
    \/ Scrape /\ UNCHANGED <<fetchVars, priceVars, ratingVars, linkVars, entryVars, dbVars>>
    \/ FlatLimit /\ UNCHANGED <<fetchVars, priceVars, ratingVars, linkVars, entryVars, dbVars>>
    \/ FlatPage /\ UNCHANGED <<fetchVars, priceVars, ratingVars, linkVars, entryVars, dbVars>>
    \/ Discover /\ UNCHANGED <<fetchVars, priceVars, ratingVars, linkVars, entryVars, dbVars>>
    \/ CategoryLimitReached /\ UNCHANGED <<fetchVars, priceVars, ratingVars, linkVars, entryVars, dbVars>>
    \/ CategoryPage /\ UNCHANGED <<fetchVars, priceVars, ratingVars, linkVars, entryVars, dbVars>>

\* the scraper of run_scraper and of the /scrape endpoint: BooksScraper()
SpecCrawlInit ==
    /\ f_ctor = "default" /\ verify_ssl = BooksScraper_init(f_ctor)
    /\ f_call = <<>> /\ f_res = <<>>
    /\ PriceIdle /\ RatingIdle /\ LinkIdle /\ EntryIdle /\ DbIdle
    /\ CrawlInit

SpecCrawl == SpecCrawlInit /\ [][CrawlNext]_vars

\* ------------------------------- one fragment, scraped by both page walkers
\* the fragments: a well-formed container, one without price, availability
\* and rating, one whose price is no numeral, each with every link; and the
\* container without h3 > a
Fragments ==
    {[b EXCEPT !.title_elem = <<[title |-> <<"T">>, href |-> l]>>] :
       b \in {bookA, bookB, bookE}, l \in SeqsUpTo(LinkTokens, MaxLinkLen)}
      \cup {bookD}

\* scrape_page on a fetched page that holds the fragment
ScrapePageEntry ==
    /\ flat_ret = <<>>
    /\ flat_ret' = <<scrape_page(base_url, verify_ssl, << <<fragment[1]>> >>, FALSE,
                                 NoDetails(<<fragment[1]>>))>>
    /\ UNCHANGED <<fragment, cat_ret>>

\* scrape_category('Travel', ...) on a fetched page that holds the fragment
ScrapeCategoryEntry ==
    /\ cat_ret = <<>>
    /\ cat_ret' = <<CategoryEntries(<<fragment[1]>>, 1, <<"Travel">>, <<>>)>>
    /\ UNCHANGED <<fragment, flat_ret>>

EntryNext ==
    \/ ScrapePageEntry /\ UNCHANGED <<fetchVars, priceVars, ratingVars, linkVars, crawlVars, dbVars>>
    \/ ScrapeCategoryEntry /\ UNCHANGED <<fetchVars, priceVars, ratingVars, linkVars, crawlVars, dbVars>>

EntryInit ==
    /\ fragment \in {<<c>> : c \in Fragments}
    /\ flat_ret = <<>> /\ cat_ret = <<>>
    /\ FetchIdle /\ PriceIdle /\ RatingIdle /\ LinkIdle /\ CrawlIdle /\ DbIdle

SpecEntry == EntryInit /\ [][EntryNext]_vars

\* ------------------------------------------------------ insert_books_bulk
\* A record of the batch and a row of the table: its upc (<<>> when the key
\* is missing or None, <<"">> for '') and its title.
Upcs == {<<>>, <<"">>, <<"a">>, <<"b">>}

\* 'upc' in book_data and book_data.get('upc')
HasUpc(record) == record.upc # <<>> /\ record.upc[1] # ""

\* session.query(Book).filter_by(upc=book_data['upc']).first()
Existing(rows, upc) == \E i \in 1..Len(rows) : rows[i].upc = upc

\* a upc column without unique=True
UniqueViolation_off(rows, book) == book.upc # <<>> /\ Existing(<<>>, book.upc)

\* upc = Column(String(100), nullable=True, unique=True): the INSERT of the
\* row fails when its upc is not NULL and a row has it
UniqueViolation(rows, book) == book.upc # <<>> /\ Existing(rows, book.upc)

\* first pass: the records that are not skipped
RECURSIVE BooksToInsert(_, _)
BooksToInsert(rows, books_data) ==
    IF books_data = <<>> THEN <<>>
    ELSE LET record == Head(books_data)
         IN  IF HasUpc(record) /\ Existing(rows, record.upc)
             THEN BooksToInsert(rows, Tail(books_data))
             ELSE <<record>> \o BooksToInsert(rows, Tail(books_data))

\* session.bulk_save_objects(books_to_insert); session.commit()
RECURSIVE bulk_save_objects(_, _)
bulk_save_objects(rows, books) ==
    IF books = <<>> THEN [raised |-> FALSE, rows |-> rows]
    ELSE IF UniqueViolation(rows, Head(books)) THEN [raised |-> TRUE, rows |-> rows]
    ELSE bulk_save_objects(Append(rows, Head(books)), Tail(books))

\* second pass: one session and one commit per record
RECURSIVE InsertEach(_, _, _)
InsertEach(rows, books_data, inserted_count) ==
    IF books_data = <<>> THEN [rows |-> rows, ret |-> inserted_count]
    ELSE LET record == Head(books_data)
         IN  IF HasUpc(record) /\ Existing(rows, record.upc)
             THEN InsertEach(rows, Tail(books_data), inserted_count)
             ELSE IF UniqueViolation(rows, record)
             THEN \* except Exception: continue
                  InsertEach(rows, Tail(books_data), inserted_count)
             ELSE InsertEach(Append(rows, record), Tail(books_data),
                             inserted_count + 1)

\* insert_books_bulk(books_data) on a table holding rows; fault is a
\* database error during the bulk statement, which is rolled back
insert_books_bulk(rows, books_data, fault) ==
    LET books_to_insert == BooksToInsert(rows, books_data)
        saved == bulk_save_objects(rows, books_to_insert)
    IN  IF books_to_insert # <<>> /\ ~fault /\ ~saved.raised
        THEN [rows |-> saved.rows, ret |-> Len(books_to_insert)]
        ELSE InsertEach(rows, books_data, 0)

\* the rows a table can hold before the call
StoredRows == {[upc |-> u, title |-> 0] : u \in Upcs}

Stores ==
    {rows \in SeqsUpTo(StoredRows, MaxStored) :
       \A i, j \in 1..Len(rows) :
         (i # j /\ rows[i].upc # <<>>) => rows[i].upc # rows[j].upc}

\* db_manager.insert_books_bulk(books_data); the i-th record has title i
InsertBooksBulk ==
    /\ db_call = <<>>
    /\ \E upcs \in SeqsUpTo(Upcs, MaxBatch), fault \in BOOLEAN :
         LET books_data == [i \in 1..Len(upcs) |-> [upc |-> upcs[i], title |-> i]]
             r == insert_books_bulk(store, books_data, fault)
         IN  /\ db_call' = <<[books_data |-> books_data, stored |-> store,
                              fault |-> fault]>>
             /\ store' = r.rows
             /\ db_ret' = <<r.ret>>

DbNext ==
    InsertBooksBulk /\ UNCHANGED <<fetchVars, priceVars, ratingVars, linkVars, crawlVars, entryVars>>

DbInit ==
    /\ store \in Stores /\ db_call = <<>> /\ db_ret = <<>>
    /\ FetchIdle /\ PriceIdle /\ RatingIdle /\ LinkIdle /\ CrawlIdle /\ EntryIdle

SpecDb == DbInit /\ [][DbNext]_vars

\* ================================================================= claims
RECURSIVE SumSeq(_)
SumSeq(s) == IF s = <<>> THEN 0 ELSE Head(s) + SumSeq(Tail(s))

\* the answers fetch_page saw, GET by GET
Seen(c) == [i \in 1..Len(c.outs) |-> session_get(c.url, c.outs[i])]

\* the GETs within the budget that were answered with a page
OkWithin(c) == {i \in 1..c.retries : Seen(c)[i] = "ok"}

C4_VerifyByDefault ==
    f_res # <<>> =>
      \A i \in 1..Len(f_res[1].gets) :
        /\ f_ctor = "default" => f_res[1].gets[i].verify = TRUE
        /\ f_res[1].gets[i].verify = FALSE => f_ctor = "false"

\* C5: a price text without any digit gives 0.0 and no error; "£51.77"
\* gives 51.77.
HasDigit(text) == \E i \in 1..Len(text) : text[i] \in Digits

C5_PriceOfText ==
    price_ret # <<>> =>
      /\ ~HasDigit(price_text) =>
           (~price_ret[1].raised /\ price_ret[1].value = [whole |-> 0, frac |-> <<>>])
      /\ price_text = <<"£", "5", "1", ".", "7", "7">> =>
           (~price_ret[1].raised
              /\ price_ret[1].value = [whole |-> 51, frac |-> <<"7", "7">>])

\* C7: a class token list holding exactly one of One..Five gives 1..5, a list
\* holding none of them gives 0, and the rating is always in 0..5.
FiveWords == <<"One", "Two", "Three", "Four", "Five">>

C7_RatingOfTokens ==
    rating_ret # <<>> =>
      LET held == {k \in 1..5 : \E i \in 1..Len(rating_class) : rating_class[i] = FiveWords[k]}
      IN  /\ \A k \in 1..5 : held = {k} => rating_ret[1] = k
          /\ held = {} => rating_ret[1] = 0
          /\ rating_ret[1] \in 0..5

\* C7 witness: the tokens of <p class="star-rating Three"> gave 3
C7_Witness ==
    /\ rating_class = <<"star-rating", "Three">>
    /\ rating_ret = <<3>>

\* C8 (as claimed): http links are kept; '../../../X' becomes <root>X; '../X'
\* becomes <root>catalogue/X; a bare X becomes <root>X when it starts with
\* 'catalogue/' and <root>catalogue/X otherwise.
Root == <<"http", "s://books.toscrape.com/">>

FourCases(l) ==
    IF l[1] = "http" THEN l
    ELSE IF Len(l) >= 3 /\ l[1] = "../" /\ l[2] = "../" /\ l[3] = "../"
    THEN Root \o SubSeq(l, 4, Len(l))
    ELSE IF l[1] = "../" THEN Root \o <<"catalogue/">> \o Tail(l)
    ELSE IF l[1] = "catalogue/" THEN Root \o l
    ELSE Root \o <<"catalogue/">> \o l

\* (stated for the links that name a page, the last token being its path)
C8_FourCasePolicy ==
    (link_ret # <<>> /\ link # <<>> /\ link[Len(link)] = "foo/index.html")
      => link_ret[1] = FourCases(link)

\* C8 (amended): as claimed for links in which '../' occurs only as the
\* leading prefix; in general '../../../X' becomes <root> followed by X with
\* every further '../../../' removed, and '../X' becomes <root>catalogue/
\* followed by X with every '../' removed; an empty link stays empty.  The
\* three example links all give <root>catalogue/foo/index.html.
RECURSIVE DropTriples(_)
DropTriples(x) ==
    IF Len(x) < 3 THEN x
    ELSE IF x[1] = "../" /\ x[2] = "../" /\ x[3] = "../"
    THEN DropTriples(SubSeq(x, 4, Len(x)))
    ELSE <<x[1]>> \o DropTriples(Tail(x))

NotUp(t) == t # "../"

FourCasesAmended(l) ==
    IF l = <<>> THEN <<>>
    ELSE IF l[1] = "http" THEN l
    ELSE IF Len(l) >= 3 /\ l[1] = "../" /\ l[2] = "../" /\ l[3] = "../"
    THEN Root \o DropTriples(SubSeq(l, 4, Len(l)))
    ELSE IF l[1] = "../" THEN Root \o <<"catalogue/">> \o SelectSeq(Tail(l), NotUp)
    ELSE IF l[1] = "catalogue/" THEN Root \o l
    ELSE Root \o <<"catalogue/">> \o l

\* '../' occurs in l only as its leading '../' or its leading '../../../'
PlainLink(l) ==
    /\ l # <<>>
    /\ LET ups == {i \in 1..Len(l) : l[i] = "../"}
       IN  ups \in {{}, {1}, {1, 2, 3}}

FooPage == Root \o <<"catalogue/", "foo/index.html">>

C8_FourCasePolicyAmended ==
    link_ret # <<>> =>
      /\ link_ret[1] = FourCasesAmended(link)
      /\ PlainLink(link) => link_ret[1] = FourCases(link)
      /\ link \in {<<"../", "../", "../", "catalogue/", "foo/index.html">>,
                   <<"../", "foo/index.html">>,
                   <<"foo/index.html">>} => link_ret[1] = FooPage

\* C8 witness: the catalogue-page form '../foo/index.html' was normalized to
\* <root>catalogue/foo/index.html
C8_Witness ==
    /\ link = <<"../", "foo/index.html">>
    /\ link_ret = <<FooPage>>

\* every entry the crawl holds: returned, or collected so far
Entries == all_books \o cat_books

\* C1: a fetch_page call whose every attempt failed with a request error
\* returned None and raised nothing, and no exception reaches the caller of
\* scrape, in flat and in by-category mode.
C1_FailureIsASignal ==
    /\ pc # "raised"
    /\ last_fetch # <<>> =>
         LET r == last_fetch[1]
         IN  /\ ~r.raised
             /\ (\A i \in 1..Len(r.gets) : r.gets[i].outcome # "ok") => r.ret = "None"
             /\ r.ret \in {"None", "soup"}

\* C1 witness: a flat crawl that had collected entries, then met a page
\* whose three attempts all failed on the certificate, and returned
C1_Witness ==
    /\ pc = "done" /\ ~by_category
    /\ all_books # <<>>
    /\ last_fetch # <<>>
    /\ last_fetch[1].ret = "None"
    /\ Len(last_fetch[1].gets) = 3
    /\ \A i \in 1..3 : last_fetch[1].gets[i].outcome = "ssl_error"

\* C6: every entry of the crawl, in either mode and with or without detail
\* enrichment, has a price, which is not negative, and a rating in 0..5.
C6_PriceAndRatingRange ==
    \A i \in 1..Len(Entries) :
      /\ "price" \in DOMAIN Entries[i]
      /\ Entries[i].price.whole >= 0
      /\ "rating" \in DOMAIN Entries[i]
      /\ Entries[i].rating \in 0..5

\* C6 witness: a finished flat crawl with details that returned an enriched
\* entry and an entry whose price text held no number and whose rating
\* element held no word
C6_Witness ==
    /\ pc = "done" /\ ~by_category /\ include_details
    /\ \E i, j \in 1..Len(all_books) :
         /\ "upc" \in DOMAIN all_books[i]
         /\ all_books[i].price = [whole |-> 51, frac |-> <<"7", "7">>]
         /\ all_books[j].title = <<"C">>
         /\ all_books[j].price = [whole |-> 0, frac |-> <<>>]
         /\ all_books[j].rating = 0

\* C9: every entry scrape returns, in flat and in by-category mode, carries an
\* absolute source URL, whatever relative form its link had (stated for the
\* entries whose link had an href).
C9_AbsoluteUrls ==
    pc = "done" =>
      \A i \in 1..Len(all_books) :
        all_books[i].url # <<>> =>
          (StartsWith(all_books[i].url, Root) \/ all_books[i].url[1] = "http")

\* C10: in flat mode an integer max_pages N lets at most N listing pages be
\* fetched.
C10_FlatPageLimit ==
    (~by_category /\ pc \in {"flat", "done"} /\ max_pages # <<>>)
      => Len(fetched) <= max_pages[1]

\* ------------------------------------------------ what the walk should give
\* the titles of a list of entries
Titles(entries) == [i \in 1..Len(entries) |-> entries[i].title]

\* the container's fields can be extracted
Extracts(book) == ~ExtractFields(book).raised

\* the titles of the containers of a page whose fields can be extracted, in
\* document order
PageTitles(book_containers) ==
    LET good == SelectSeq(book_containers, Extracts)
    IN  [i \in 1..Len(good) |-> good[i].title_elem[1].title]

\* the titles on the pages the log holds for stream k, in the order walked
RECURSIVE StreamTitles(_, _)
StreamTitles(log, k) ==
    IF log = <<>> THEN <<>>
    ELSE (IF Head(log).stream = k /\ Head(log).ok
          THEN PageTitles(Head(log).containers) ELSE <<>>)
           \o StreamTitles(Tail(log), k)

\* the page ends its stream: the fetch failed or there is no container
Ended(w) == ~w.ok \/ w.containers = <<>>

Front(s) == SubSeq(s, 1, Len(s) - 1)

\* C11: a page whose fetch failed or that has no container ends its stream
\* without an error: the flat crawl is done and returns the entries of the
\* pages before it, a category stream has returned the entries of the pages
\* before it and asks for no further page; nothing is lost or added.
C11_StreamEndKeepsEntries ==
    /\ pc # "raised"
    /\ \A i \in 1..Len(walked) :
         Ended(walked[i]) =>
           /\ \A j \in (i + 1)..Len(walked) : walked[j].stream # walked[i].stream
           /\ IF walked[i].stream = 0
              THEN /\ pc = "done"
                   /\ Titles(all_books) = StreamTitles(Front(walked), 0)
              ELSE /\ Len(cat_returns) >= walked[i].stream
                   /\ Titles(cat_returns[walked[i].stream])
                        = StreamTitles(SubSeq(walked, 1, i - 1), walked[i].stream)

\* C11 witness: a flat crawl that took two pages of entries, met a page
\* without containers and returned the four entries
C11_Witness ==
    /\ pc = "done" /\ ~by_category
    /\ Len(walked) = 3
    /\ walked[3].ok /\ walked[3].containers = <<>>
    /\ Len(all_books) = 4

\* C11 witness, category side: a category stream that took a page of
\* entries, failed to fetch its second page and returned the two entries
C11_CategoryWitness ==
    /\ by_category /\ Len(walked) >= 2
    /\ walked[1].stream = 1 /\ walked[2].stream = 1 /\ ~walked[2].ok
    /\ Len(cat_returns) >= 1 /\ Len(cat_returns[1]) = 2

\* C12: the flat stream stops at page N only if N exceeds max_pages, the
\* fetch of page N failed, or page N has no container; a fetched page with
\* a container never ends the stream, whatever its entries raise.
C12_FlatStopsOnlyOn ==
    (pc = "done" /\ ~by_category) =>
      \/ max_pages # <<>> /\ page_num > max_pages[1]
      \/ walked # <<>> /\ Ended(walked[Len(walked)])

RECURSIVE Concat(_)
Concat(lists) == IF lists = <<>> THEN <<>> ELSE Head(lists) \o Concat(Tail(lists))

\* the first page of stream k was asked for
Walked(k) == \E i \in 1..Len(walked) : walked[i].stream = k /\ walked[i].n = 1

\* C13: a finished by-category crawl returns the entries of its category
\* streams concatenated in the order scrape_categories listed them; every
\* category was walked, also after a category whose fetch failed, and each
\* stream gave the entries of the pages it had fetched.
C13_CategoryOrder ==
    /\ (by_category /\ pc \in {"category", "done"}) =>
         /\ all_books = Concat(cat_returns)
         /\ \A k \in 1..Len(cat_returns) :
              /\ Walked(k)
              /\ Titles(cat_returns[k]) = StreamTitles(walked, k)
    /\ (by_category /\ pc = "done") =>
         /\ Len(cat_returns) = Len(categories)
         /\ \A i \in 1..Len(walked) : walked[i].stream \in 1..Len(categories)
         /\ \A i, j \in 1..Len(walked) :
              i < j => walked[i].stream <= walked[j].stream

\* C13 witness: a finished crawl of two categories; the first gave two
\* entries and then failed to fetch its second page, the second was walked
\* all the same and gave entries
C13_Witness ==
    /\ by_category /\ pc = "done"
    /\ Len(categories) = 2 /\ Len(cat_returns) = 2
    /\ Len(cat_returns[1]) = 2
    /\ \E i \in 1..Len(walked) : walked[i].stream = 1 /\ ~walked[i].ok
    /\ cat_returns[2] # <<>>
    /\ all_books = cat_returns[1] \o cat_returns[2]

\* C14: in a by-category crawl every entry a category stream returned, or
\* holds so far, has the name of that category as its category, and no
\* entry of the result has the default "Unknown".
C14_CategoryOfStream ==
    by_category =>
      /\ \A k \in 1..Len(cat_returns) :
           \A i \in 1..Len(cat_returns[k]) :
             cat_returns[k][i].category = categories[k].name
      /\ \A i \in 1..Len(cat_books) :
           cat_books[i].category = categories[cat_idx].name
      /\ \A i \in 1..Len(all_books) :
           /\ all_books[i].category # <<"Unknown">>
           /\ \E k \in 1..Len(categories) :
                all_books[i].category = categories[k].name

\* C14 witness: a finished crawl of the categories Art and Travel that
\* returned entries of both
C14_Witness ==
    /\ by_category /\ pc = "done"
    /\ Len(categories) = 2
    /\ categories[1].name = <<"Art">> /\ categories[2].name = <<"Travel">>
    /\ \E i, j \in 1..Len(all_books) :
         /\ i < j
         /\ all_books[i].category = <<"Art">>
         /\ all_books[j].category = <<"Travel">>

\* C15: in by-category mode, when scrape was given a max_pages value,
\* whatever the integer, no category stream asks for a page after its first.
C15_OnePagePerCategory ==
    (by_category /\ max_pages # <<>>) =>
      \A i \in 1..Len(walked) : walked[i].n = 1

\* the entry of a container whose fields can be extracted, without details
EntryOf(book) ==
    LET a == book.title_elem[1]
    IN  [title |-> a.title,
         price |-> ExtractFields(book).price,
         availability |-> ExtractFields(book).availability,
         rating |-> ExtractFields(book).rating,
         url |-> FourCasesAmended(a.href),
         category |-> <<"Unknown">>]

PageEntries(book_containers) ==
    [i \in 1..Len(book_containers) |-> EntryOf(book_containers[i])]

\* the pages of the log were all fetched and every container on them is
\* well formed
WellFormedSite ==
    \A i \in 1..Len(walked) :
      /\ walked[i].ok
      /\ \A j \in 1..Len(walked[i].containers) : Extracts(walked[i].containers[j])

\* the URL of page i of the flat stream
FlatUrl(i) ==
    IF i = 1 THEN Root ELSE Root \o <<"catalogue/", "page-" \o ToString(i) \o ".html">>

\* C16: a finished flat crawl without details and with max_pages = N >= 1,
\* on a site that answered every fetch with well-formed pages: with L the
\* number of pages asked for, L <= N (page N+1 is never asked for), the
\* pages were <root> and <root>catalogue/page-i.html in order, the pages
\* before the last held entries, the last page held entries unless the
\* site ran out before N, and the result is the entries of those pages, one
\* per container, in page order and document order.
C16_FlatResult ==
    (/\ pc = "done" /\ ~by_category /\ ~include_details
     /\ max_pages # <<>> /\ max_pages[1] >= 1
     /\ WellFormedSite) =>
       LET N == max_pages[1]
           L == Len(walked)
       IN  /\ L \in 1..N
           /\ fetched = [i \in 1..L |-> FlatUrl(i)]
           /\ \A i \in 1..L : walked[i].n = i
           /\ \A i \in 1..(L - 1) : walked[i].containers # <<>>
           /\ walked[L].containers # <<>> => L = N
           /\ all_books = Concat([i \in 1..L |-> PageEntries(walked[i].containers)])

\* C16 witness: N = 2 on a site with two full pages: both were fetched, no
\* third page was, and the four entries came back
C16_Witness ==
    /\ pc = "done" /\ ~by_category /\ ~include_details
    /\ max_pages = <<2>>
    /\ WellFormedSite
    /\ Len(walked) = 2 /\ Len(fetched) = 2
    /\ walked[1].containers = <<bookA, bookC>>
    /\ walked[2].containers = <<bookF, bookA>>
    /\ Titles(all_books) = << <<"A">>, <<"C">>, <<"F">>, <<"A">> >>

\* every attempt of the detail fetch fails
DetailFetchFails(choice) == \A i \in 1..MAX_RETRIES : choice.outs[i] # "ok"

\* the place in the returned list of the entry of container idx
PlaceOf(book_containers, idx) ==
    Cardinality({j \in 1..idx : Extracts(book_containers[j])})

\* C17: in a flat crawl with details, scrape_page returns one entry for
\* every container whose fields can be extracted; where the detail fetch
\* of such an entry failed, the entry is the basic one with category
\* "Unknown"; and after a page that gave entries the crawl goes on to the
\* next page (or stops on the page limit).
C17_DetailFailureKeepsEntry ==
    (~by_category /\ include_details /\ last_page # <<>>) =>
      LET p == last_page[1]
          n == Len(p.containers)
      IN  /\ pc # "raised"
          /\ Len(p.books) = PlaceOf(p.containers, n)
          /\ \A idx \in 1..n :
               (/\ Extracts(p.containers[idx])
                /\ p.containers[idx].title_elem[1].href # <<>>
                /\ DetailFetchFails(p.dets[idx])) =>
                  p.books[PlaceOf(p.containers, idx)] = EntryOf(p.containers[idx])
          /\ p.books # <<>> =>
               /\ page_num = Len(walked) + 1
               /\ pc = "flat" \/ (pc = "done" /\ max_pages # <<>> /\ page_num > max_pages[1])
               /\ SubSeq(all_books, Len(all_books) - Len(p.books) + 1, Len(all_books)) = p.books

\* C17 witness: on the second page the detail fetch of the first entry
\* failed and that of the second succeeded: the first is there with its
\* basic fields, the second enriched, and the crawl asks for page 3
C17_Witness ==
    /\ ~by_category /\ include_details /\ pc = "flat" /\ page_num = 3
    /\ Len(walked) = 2 /\ last_page # <<>>
    /\ last_page[1].containers = <<bookA, bookC>>
    /\ DetailFetchFails(last_page[1].dets[1])
    /\ last_page[1].books[1] = EntryOf(bookA)
    /\ "upc" \in DOMAIN last_page[1].books[2]
    /\ Len(all_books) >= 3

\* what the container holds can be read: its only defects are missing
\* sub-elements
OnlyAbsences(book) ==
    book.price_elem = <<>> \/ ~extract_price(book.price_elem[1]).raised

\* C19: a fetched page whose containers have no defect but missing
\* sub-elements (h3 > a, price, availability, rating) yields one entry per
\* container, a missing price giving 0.0, a missing availability "Unknown"
\* and a missing rating 0.
C19_AbsenceKeepsEntry ==
    (/\ ~by_category /\ ~include_details /\ last_page # <<>>
     /\ \A idx \in 1..Len(last_page[1].containers) :
          OnlyAbsences(last_page[1].containers[idx])) =>
       LET p == last_page[1]
       IN  /\ Len(p.books) = Len(p.containers)
           /\ \A idx \in 1..Len(p.containers) :
                /\ p.containers[idx].price_elem = <<>> => p.books[idx].price = Zero
                /\ p.containers[idx].availability_elem = <<>>
                     => p.books[idx].availability = <<"Unknown">>
                /\ p.containers[idx].rating_elem = <<>> => p.books[idx].rating = 0

\* the five fields the two page walkers are to agree on
SharedFields(e) ==
    [title |-> e.title, price |-> e.price, availability |-> e.availability,
     rating |-> e.rating, url |-> e.url]

\* C20: scrape_page and scrape_category, given the same fragment, return
\* the same number of entries with the same title, price, availability,
\* rating and source URL, for every link of one of the policy's four forms
\* (http..., '../../../X', '../X', bare) that names a page.
C20_SameExtraction ==
    (/\ flat_ret # <<>> /\ cat_ret # <<>>
     /\ fragment[1].title_elem # <<>>
     /\ PlainLink(fragment[1].title_elem[1].href)
     /\ fragment[1].title_elem[1].href[Len(fragment[1].title_elem[1].href)]
          = "foo/index.html") =>
       /\ Len(flat_ret[1]) = Len(cat_ret[1])
       /\ \A i \in 1..Len(flat_ret[1]) :
            SharedFields(flat_ret[1][i]) = SharedFields(cat_ret[1][i])

\* no two rows have the same product code
NoTwoSameUpc(rows) ==
    \A i, j \in 1..Len(rows) :
      (i # j /\ rows[i].upc # <<>>) => rows[i].upc # rows[j].upc

\* the records of the batch that are to be added: those without a code, and
\* those whose code is neither stored nor carried by an earlier record
ToAdd(c) ==
    {i \in 1..Len(c.books_data) :
       \/ c.books_data[i].upc = <<>>
       \/ /\ \A k \in 1..Len(c.stored) : c.stored[k].upc # c.books_data[i].upc
          /\ \A j \in 1..(i - 1) : c.books_data[j].upc # c.books_data[i].upc}

EndsInIndex(url) == url # <<>> /\ url[Len(url)] = "index.html"

HasHref(a) == a.href # <<>>

\* how often url was asked for
TimesFetched(url) == Cardinality({i \in 1..Len(fetched) : fetched[i] = url})

\* C22: once discovery has run, the site root was fetched once, first, and
\* nothing was raised; the categories are the sidebar links after the first
\* that have an href, in document order, named by their trimmed text; a
\* failed root fetch or a root page without sidebar gives no category and
\* the crawl is done with no entry.
C22_CategoryDiscovery ==
    (by_category /\ pc \notin {"new", "discover"}) =>
      /\ pc # "raised"
      /\ root_soup # <<>>
      /\ fetched[1] = Root /\ TimesFetched(Root) = 1
      /\ IF root_soup[1] = <<>> \/ root_soup[1][1] = <<>>
         THEN categories = <<>> /\ pc = "done" /\ all_books = <<>>
         ELSE LET links == Tail(root_soup[1][1][1])
                  kept == SelectSeq(links, HasHref)
              IN  /\ Len(categories) = Len(kept)
                  /\ \A i \in 1..Len(kept) :
                       categories[i].name = Strip(kept[i].text)

\* C22 witness: the sidebar Books, None (no href), Travel gave the one
\* category Travel, named without the blanks around the link text
C22_Witness ==
    /\ by_category /\ root_soup # <<>> /\ root_soup[1] # <<>>
    /\ root_soup[1][1] = << <<catBooks, catNone, catTravel>> >>
    /\ Len(categories) = 1
    /\ categories[1].name = <<"Travel">>
    /\ catTravel.text = <<" ", "Travel", " ">>

\* C22 witness, failure side: the root fetch failed, the crawl is done and
\* empty
C22_FailedRootWitness ==
    /\ by_category /\ pc = "done" /\ root_soup = <<<<>>>>
    /\ categories = <<>> /\ all_books = <<>>

\* the detail request and the wait expected for one container
ExpectedOf(book) ==
    IF Extracts(book) /\ book.title_elem[1].href # <<>>
    THEN <<Get("detail", FourCasesAmended(book.title_elem[1].href)), Sleep(5)>>
    ELSE <<>>

\* the events expected for the i-th listing page of a flat crawl with details
ExpectedPage(i) ==
    <<Get("listing", FlatUrl(i))>>
      \o Concat([j \in 1..Len(walked[i].containers) |->
                    ExpectedOf(walked[i].containers[j])])

\* C23: in a flat crawl with details every detail request, whether it
\* succeeded or failed, is directly followed by a wait of 0.5 (5 tenths),
\* so that a wait lies between any two detail requests; and the events of
\* the crawl are, listing page by listing page, the listing request
\* followed by the detail request and wait of each of its entries, so that
\* all detail requests of a page precede the next listing request.
C23_DetailWaits ==
    (~by_category /\ include_details) =>
      /\ \A i \in 1..Len(trace) :
           (trace[i].op = "get" /\ trace[i].page = "detail") =>
              /\ i < Len(trace)
              /\ trace[i + 1] = Sleep(5)
      /\ trace = Concat([i \in 1..Len(walked) |-> ExpectedPage(i)])

\* C23 witness: a page of two entries whose first detail fetch failed and
\* whose second succeeded: request, wait, request, wait, then the listing
\* request of page 2
C23_Witness ==
    /\ ~by_category /\ include_details /\ Len(walked) = 2
    /\ walked[1].containers = <<bookA, bookC>>
    /\ "upc" \notin DOMAIN all_books[1] /\ "upc" \in DOMAIN all_books[2]
    /\ Len(trace) >= 6
    /\ trace[2].page = "detail" /\ trace[3] = Sleep(5)
    /\ trace[4].page = "detail" /\ trace[5] = Sleep(5)
    /\ trace[6] = Get("listing", FlatUrl(2))

BasicKeys == {"title", "price", "availability", "rating", "url", "category"}

\* the requests a by-category crawl makes, from what the site served
CategoryRequests ==
    <<Root>> \o [i \in 1..Len(walked) |->
                  IF walked[i].n = 1 THEN categories[walked[i].stream].url
                  ELSE Replace(categories[walked[i].stream].url, <<"index.html">>,
                               <<"page-" \o ToString(walked[i].n) \o ".html">>)]

\* the entry scrape_category makes of a container
CategoryEntryOf(book, name) ==
    [EntryOf(book) EXCEPT !.category = name,
                          !.url = CategoryBookUrl(book.title_elem[1].href)]

\* the entries of the pages the site served, as a by-category crawl
\* returns them
RECURSIVE CategoryResult(_)
CategoryResult(log) ==
    IF log = <<>> THEN <<>>
    ELSE LET w == Head(log)
             good == SelectSeq(w.containers, Extracts)
         IN  (IF w.ok
              THEN [j \in 1..Len(good) |->
                      CategoryEntryOf(good[j], categories[w.stream].name)]
              ELSE <<>>) \o CategoryResult(Tail(log))

Offset(i) ==
    SumSeq([k \in 1..(i - 1) |-> Len(SelectSeq(walked[k].containers, Extracts))])

C26_NoUrlTwiceInStream ==
    (by_category /\ pc \in {"category", "done", "raised"}) =>
      \A i, j \in 1..Len(walked) :
        (/\ walked[i].stream > 0
         /\ walked[i].stream = walked[j].stream
         /\ walked[i].n # walked[j].n
         /\ i + 1 <= Len(fetched) /\ j + 1 <= Len(fetched)) =>
          fetched[i + 1] # fetched[j + 1]

\* C27: every category that discovery returned has an absolute listing URL,
\* one that starts with the site root, whatever form the href of its
\* sidebar link had.
C27_CategoryUrlsAbsolute ==
    by_category =>
      \A i \in 1..Len(categories) : StartsWith(categories[i].url, Root)

\* the answers of a call with every HTTP error status replaced by kind
AnswersWith(c, kind) ==
    [i \in 1..Len(c.outs) |-> IF c.outs[i] = "http_error" THEN kind ELSE c.outs[i]]

DetailKeys ==
    {"category", "description", "image_url", "upc", "product_type",
     "price_excl_tax", "price_incl_tax", "tax", "number_of_reviews"}

\* C29: in a flat crawl with details, every entry scrape_page returns has
\* the title, price, availability, rating and url of its basic entry,
\* whether its detail fetch succeeded or failed, and besides the basic keys
\* it has only keys among category, description, image_url, upc,
\* product_type, price_excl_tax, price_incl_tax, tax, number_of_reviews.
C29_EnrichmentFrame ==
    (~by_category /\ include_details /\ last_page # <<>>) =>
      LET p == last_page[1]
      IN  /\ Len(p.books) = PlaceOf(p.containers, Len(p.containers))
          /\ \A idx \in 1..Len(p.containers) :
               Extracts(p.containers[idx]) =>
                 LET e == p.books[PlaceOf(p.containers, idx)]
                 IN  /\ BasicKeys \subseteq DOMAIN e
                     /\ DOMAIN e \subseteq BasicKeys \cup DetailKeys
                     /\ SharedFields(e) = SharedFields(EntryOf(p.containers[idx]))

\* C29 witness: a page of two entries, the first enriched from a detail
\* page whose table has an Availability row, the second not enriched
\* because its detail fetch failed; both keep their listing's availability
C29_Witness ==
    /\ ~by_category /\ include_details /\ last_page # <<>>
    /\ last_page[1].containers = <<bookA, bookC>>
    /\ Len(last_page[1].books) = 2
    /\ ~DetailFetchFails(last_page[1].dets[1])
    /\ last_page[1].dets[1].page = detailGood
    /\ DetailFetchFails(last_page[1].dets[2])
    /\ "upc" \in DOMAIN last_page[1].books[1]
    /\ last_page[1].books[1].category = <<"Poetry">>
    /\ last_page[1].books[1].availability = EntryOf(bookA).availability
    /\ last_page[1].books[2] = EntryOf(bookC)

\* a row of the table holds a decimal attribute whose first run of digits
\* and points is no numeral
BadDecimal(page) ==
    /\ page.table # <<>>
    /\ \E i \in 1..Len(page.table[1]) :
         LET row == page.table[1][i]
             run == re_search(Strip(row.td))
         IN  /\ NormalizeKey(row.th) \in {"price_excl_tax", "price_incl_tax", "tax"}
             /\ run # <<>> /\ ~float_valid(run)

\* C30: in a flat crawl with details, when the detail page of an entry was
\* fetched and one of its decimal attributes (price_excl_tax,
\* price_incl_tax, tax) is no numeral, scrape_book_details returns None and
\* the entry is the basic one: it has no key of the detail page and its
\* category is "Unknown", whatever else the page held.
C30_ParseErrorDropsDetails ==
    (~by_category /\ include_details /\ last_page # <<>>) =>
      LET p == last_page[1]
      IN  \A idx \in 1..Len(p.containers) :
            (/\ Extracts(p.containers[idx])
             /\ p.containers[idx].title_elem[1].href # <<>>
             /\ BadDecimal(p.dets[idx].page)) =>
               /\ scrape_book_details(verify_ssl,
                                      FourCasesAmended(p.containers[idx].title_elem[1].href),
                                      p.dets[idx]).details = <<>>
               /\ PlaceOf(p.containers, idx) <= Len(p.books)
               /\ p.books[PlaceOf(p.containers, idx)] = EntryOf(p.containers[idx])

\* C30 witness: the detail page of A was fetched and held a category, a
\* description, a product code and a price before its tax '.': the entry
\* of A has none of them
C30_Witness ==
    /\ ~by_category /\ include_details /\ last_page # <<>>
    /\ last_page[1].containers = <<bookA, bookC>>
    /\ last_page[1].dets[1] = [outs |-> AllOk, page |-> detailPartial]
    /\ Len(last_page[1].books) = 2
    /\ DOMAIN last_page[1].books[1] = BasicKeys
    /\ last_page[1].books[1].category = <<"Unknown">>
    /\ last_page[1].books[1].title = <<"A">>

====
